---- MODULE Spec2Model ----
(***************************************************************************)
(* Model of scripts/lib/api.py: the resilient JSON fetcher (_fetch_json),  *)
(* the Pyroscope client (pyro_render, pyro_top_functions) and the          *)
(* Prometheus client (prom_query, prom_instant).                           *)
(*                                                                         *)
(* A call of pyro_top_functions is a small state machine: render (build    *)
(* the URL, check the scheme, one urlopen), check (lines 130-138), the     *)
(* for/while scan (lines 141-148) one 4-integer group per step, and the    *)
(* final sort/slice/format (lines 150-152).  Every Python local of a call  *)
(* is a function from the call's id to its value, so that several calls    *)
(* can be interleaved.                                                     *)
(*                                                                         *)
(* JSON values are tagged records, because Python's behaviour depends on   *)
(* the dynamic type of what the response holds: a value that is not of     *)
(* the expected type makes the code raise (AttributeError, TypeError,      *)
(* IndexError, KeyError), and a raised exception that no except clause     *)
(* names leaves the call.                                                  *)
(***************************************************************************)
EXTENDS Integers, Sequences, FiniteSets, TLC

VARIABLES
  pc,        \* per call: "render", "check", "for", "while", "sort", "done"
  base_url,  \* per call: argument base_url, a sequence of characters
  requests,  \* per call: number of urlopen calls made so far
  outcome,   \* per call: what _fetch_json did ("" before it ran)
  data,      \* per call: local data (the parsed JSON, JNone for None)
  names,     \* per call: local names
  levels,    \* per call: local levels
  total,     \* per call: local total
  li,        \* per call: position of the for loop in levels (1-based)
  i,         \* per call: local i
  self_map,  \* per call: local self_map, a dict in insertion order
  n,         \* per call: argument n (read at line 150 only)
  ret,       \* per call: how the call ended
  ppc,       \* prom_instant: "idle", "query", "loop", "done"
  presult,   \* prom_instant: the list prom_query returned
  pidx,      \* prom_instant: position of the for loop (1-based)
  out,       \* prom_instant: local out, a dict in insertion order
  pret       \* prom_instant: how the call ended

pyroVars == <<pc, base_url, requests, outcome, data, names, levels, total, li, i, self_map, n, ret>>
promVars == <<ppc, presult, pidx, out, pret>>
vars == <<pc, base_url, requests, outcome, data, names, levels, total, li, i, self_map, n, ret,
          ppc, presult, pidx, out, pret>>

----------------------------------------------------------------------------
(* Bounds of the inputs                                                    *)

\* largest self_ticks of a frame group
MaxSelf == 2
\* largest number of integers over all levels of a payload
MaxInts == 8
\* largest number of levels of a payload
MaxLevels == 2
\* largest number of entries of a Prometheus result list
MaxResults == 2

----------------------------------------------------------------------------
(* Python values                                                           *)

Min(a, b) == IF a < b THEN a ELSE b
Max(a, b) == IF a > b THEN a ELSE b
Abs(a) == IF a < 0 THEN -a ELSE a

\* an element of a level: an integer, or something that is not a number
J(k) == [isInt |-> TRUE, v |-> k]
JStr == [isInt |-> FALSE, v |-> 0]

\* a list value, a null and an absent key
JList(s) == [kind |-> "list", items |-> s]
JNullList == [kind |-> "null", items |-> <<>>]
JMissingList == [kind |-> "missing", items |-> <<>>]

\* numTicks: a number, a null, an absent key
JNum(k) == [kind |-> "num", v |-> k]
JNullNum == [kind |-> "null", v |-> 0]
JMissingNum == [kind |-> "missing", v |-> 0]

\* the parsed response: top is the type of the top-level value, fb the type
\* of its "flamebearer" member
Payload(top, fb, nm, lv, nt) ==
  [top |-> top, fb |-> fb, names |-> nm, levels |-> lv, numTicks |-> nt]

\* Python None (also what json.loads gives for the text null)
JNone == Payload("null", "missing", JMissingList, JMissingList, JMissingNum)

\* dict.get(key, default)
Get(field, default) == IF field.kind = "missing" THEN default ELSE field

\* how a call ends
Pending == [st |-> "pending", val |-> <<>>, exc |-> ""]
Returned(v) == [st |-> "returned", val |-> v, exc |-> ""]
Raised(e) == [st |-> "raised", val |-> <<>>, exc |-> e]

----------------------------------------------------------------------------
(* _fetch_json and pyro_render                                             *)

HttpPrefix == <<"h", "t", "t", "p", ":", "/", "/">>
HttpsPrefix == <<"h", "t", "t", "p", "s", ":", "/", "/">>

\* str.startswith(prefix)
StartsWith(s, p) == Len(s) >= Len(p) /\ SubSeq(s, 1, Len(p)) = p

\* line 44: url.startswith(("http://", "https://"))
AllowedScheme(url) == StartsWith(url, HttpPrefix) \/ StartsWith(url, HttpsPrefix)

\* lines 118-120: the URL is base_url followed by the path and the query
RenderUrl(b) == b \o <<"/pyroscope/render?query=", "&from=now-1h&until=now&format=json">>

\* the exceptions lines 55-63 catch, and two that urlopen/read/json.loads
\* raise and no clause names (UnicodeDecodeError is a ValueError, not a
\* JSONDecodeError; IncompleteRead is an HTTPException, not an OSError)
CaughtErrors == {"HTTPError", "URLError", "OSError", "JSONDecodeError"}
UncaughtErrors == {"UnicodeDecodeError", "IncompleteRead"}

----------------------------------------------------------------------------
(* The accumulator: a dict, kept as the sequence of its items in insertion *)
(* order (a Python dict iterates in insertion order; assigning to a key    *)
(* that is present keeps its position).                                    *)

Item(k, v) == [k |-> k, v |-> v]

Keys(m) == {m[j].k : j \in 1..Len(m)}

\* dict.get(k, default)
MapGet(m, k, default) ==
  IF k \in Keys(m) THEN m[CHOOSE j \in 1..Len(m) : m[j].k = k].v ELSE default

\* m[k] = v
MapPut(m, k, v) ==
  IF k \in Keys(m)
    THEN [j \in 1..Len(m) |-> IF m[j].k = k THEN Item(k, v) ELSE m[j]]
    ELSE Append(m, Item(k, v))

\* s[k] for a Python list s and an integer k with -len(s) <= k < len(s)
PyIndex(s, k) == IF k >= 0 THEN s[k + 1] ELSE s[Len(s) + k + 1]

\* s[:k]
PySlice(s, k) ==
  IF k >= 0 THEN SubSeq(s, 1, Min(k, Len(s))) ELSE SubSeq(s, 1, Max(Len(s) + k, 0))

----------------------------------------------------------------------------
(* The scan, lines 141-148                                                 *)

\* line 143: the while condition i + 3 < len(level); len of a value that is
\* not a list raises TypeError
WhileCond(level, k) ==
  IF level.kind # "list" THEN "raise"
  ELSE IF k + 3 < Len(level.items) THEN "true" ELSE "false"

\* line 144: name_idx = level[i + 3]
NameIdx(level, k) == level.items[k + 4]

\* a variant of SelfVal that reads total_ticks, the field before self_ticks
SelfValFromTotal(level, k) == level.items[k + 2]

\* line 145: self_val = level[i + 2]
SelfVal(level, k) == level.items[k + 3]

\* lines 146-147 on one group: the exception raised ("" for none) and the
\* accumulator afterwards.  "and" evaluates self_val > 0 only when
\* name_idx < len(names) holds; names[name_idx] with a negative name_idx
\* counts from the end and raises IndexError below -len(names).
GroupEffect(nm, m, name_idx, self_val) ==
  IF nm.kind # "list" \/ ~name_idx.isInt THEN [exc |-> "TypeError", map |-> m]
  ELSE IF ~(name_idx.v < Len(nm.items)) THEN [exc |-> "", map |-> m]
  ELSE IF ~self_val.isInt THEN [exc |-> "TypeError", map |-> m]
  ELSE IF ~(self_val.v > 0) THEN [exc |-> "", map |-> m]
  ELSE IF name_idx.v < -Len(nm.items) THEN [exc |-> "IndexError", map |-> m]
  ELSE LET key == PyIndex(nm.items, name_idx.v)
       IN [exc |-> "", map |-> MapPut(m, key, MapGet(m, key, 0) + self_val.v)]

----------------------------------------------------------------------------
(* Ranking and formatting, lines 150-152                                   *)

\* a variant of Sorted: ascending by value, then reversed, which puts
\* items of equal value in the reverse of their insertion order
RECURSIVE InsertAscending(_, _)
InsertAscending(e, s) ==
  IF s = <<>> THEN <<e>>
  ELSE IF e.v < Head(s).v THEN <<e>> \o s
  ELSE <<Head(s)>> \o InsertAscending(e, Tail(s))

RECURSIVE AscendingFrom(_, _)
AscendingFrom(m, acc) ==
  IF m = <<>> THEN acc ELSE AscendingFrom(Tail(m), InsertAscending(Head(m), acc))

SortedReversed(m) ==
  LET asc == AscendingFrom(m, <<>>)
  IN [j \in 1..Len(asc) |-> asc[Len(asc) + 1 - j]]

\* sorted(items, key=lambda x: -x[1]): a stable sort, an item goes after
\* every item already placed whose value is at least its own
RECURSIVE InsertByValue(_, _)
InsertByValue(e, s) ==
  IF s = <<>> THEN <<e>>
  ELSE IF -e.v < -Head(s).v THEN <<e>> \o s
  ELSE <<Head(s)>> \o InsertByValue(e, Tail(s))

RECURSIVE SortedFrom(_, _)
SortedFrom(m, acc) ==
  IF m = <<>> THEN acc ELSE SortedFrom(Tail(m), InsertByValue(Head(m), acc))

Sorted(m) == SortedFrom(m, <<>>)

\* a variant of RoundPct that drops the digits after the first decimal
RoundPctTruncated(val, tot) ==
  LET mag == (Abs(val) * 1000) \div Abs(tot)
  IN IF (val < 0) = (tot < 0) THEN mag ELSE -mag

\* round(val / total * 100, 1) in tenths of a percent, total # 0: the
\* nearest tenth, a tie going to the even tenth (Python 3 round)
RoundPct(val, tot) ==
  LET num == Abs(val) * 1000
      den == Abs(tot)
      q == num \div den
      r == num % den
      mag == IF 2 * r > den THEN q + 1
             ELSE IF 2 * r < den THEN q
             ELSE IF q % 2 = 0 THEN q ELSE q + 1
  IN IF (val < 0) = (tot < 0) THEN mag ELSE -mag

Entry(name, val, tot) == [function |-> name, self |-> val, pct |-> RoundPct(val, tot)]

\* lines 150-152: TypeError when there is an entry to format and total is
\* not a number
TopEntries(m, tot, k) ==
  LET top == PySlice(Sorted(m), k)
  IN IF top # <<>> /\ tot.kind # "num" THEN Raised("TypeError")
     ELSE Returned([j \in 1..Len(top) |-> Entry(top[j].k, top[j].v, tot.v)])

----------------------------------------------------------------------------
(* The inputs                                                              *)

\* base_url arguments: two accepted schemes, and four the scheme check
\* refuses (startswith is case sensitive)
BaseUrls ==
  { <<"h", "t", "t", "p", ":", "/", "/", "p">>,
    <<"h", "t", "t", "p", "s", ":", "/", "/", "p">>,
    <<"f", "t", "p", ":", "/", "/", "p">>,
    <<"f", "i", "l", "e", ":", "/", "/", "/", "p">>,
    <<"H", "T", "T", "P", ":", "/", "/", "p">>,
    <<>> }

NameLists == {<<"a">>, <<"a", "b">>}

\* self_ticks of a group: negative, zero and positive
SelfVals == -1..MaxSelf

\* name_index of a group: for one name -2 is below -len(names), -1 counts
\* from the end, 0 is in range and 1 is too large; for two names 0 and 1
\* are in range and -1, -2 count from the end
IdxVals == {-2, -1, 0, 1}

\* numTicks of the well-formed payloads (0 is among the edge payloads)
TickVals == {3, 16}

\* the argument n
NVals == {-1, 0, 1, 5}

\* a frame group [offset, total_ticks, self_ticks, name_index]
Group(s, x) == <<J(0), J(7), J(s), J(x)>>

Groups == {Group(s, x) : s \in SelfVals, x \in IdxVals}

\* the first k integers of a group that the level's end cuts short
Trail(k) == SubSeq(<<J(0), J(7), J(MaxSelf)>>, 1, k)

RECURSIVE Concat(_)
Concat(ss) == IF ss = <<>> THEN <<>> ELSE Head(ss) \o Concat(Tail(ss))

\* the levels of at most m integers: whole groups, then a partial group
LevelsUpTo(m) ==
  UNION { UNION { { JList(Concat(gs) \o Trail(t)) : gs \in [1..k -> Groups] }
                  : t \in {u \in 0..3 : 4 * k + u <= m} }
          : k \in 0..(m \div 4) }

\* the lists of exactly c levels holding at most m integers together
RECURSIVE LevelLists(_, _)
LevelLists(c, m) ==
  IF c = 0 THEN {<<>>}
  ELSE UNION { { <<l>> \o rest : rest \in LevelLists(c - 1, m - Len(l.items)) }
               : l \in LevelsUpTo(m) }

AllLevelLists == UNION { LevelLists(c, MaxInts) : c \in 0..MaxLevels }

Flame(nm, lv, nt) == Payload("object", "object", nm, lv, nt)

WellFormed ==
  { Flame(JList(nm), JList(ls), JNum(t)) : nm \in NameLists, ls \in AllLevelLists, t \in TickVals }

OneGroup(s, x) == JList(<<JList(Group(s, x))>>)
TwoGroups(s, x, t, y) == JList(<<JList(Group(s, x) \o Group(t, y))>>)
AB == JList(<<"a", "b">>)

\* responses that are valid JSON but not the expected flamebearer
EdgePayloads ==
  { JNone,
    Payload("array", "missing", JMissingList, JMissingList, JMissingNum),
    Payload("object", "missing", JMissingList, JMissingList, JMissingNum),
    Payload("object", "array", JMissingList, JMissingList, JMissingNum),
    Flame(AB, OneGroup(1, 0), JNum(0)),
    Flame(AB, OneGroup(1, 0), JMissingNum),
    Flame(AB, OneGroup(1, 0), JNullNum),
    Flame(AB, OneGroup(0, 0), JNullNum),
    Flame(AB, OneGroup(1, 0), JNum(-2)),
    Flame(AB, TwoGroups(1, 0, 2, 1), JNum(-2)),
    Flame(JMissingList, OneGroup(1, 0), JNum(3)),
    Flame(JMissingList, OneGroup(1, -1), JNum(3)),
    Flame(JNullList, OneGroup(1, 0), JNum(3)),
    Flame(JNullList, JList(<<>>), JNum(3)),
    Flame(AB, JMissingList, JNum(3)),
    Flame(AB, JNullList, JNum(3)),
    Flame(AB, JList(<<JNullList>>), JNum(3)),
    Flame(AB, JList(<<JList(<<J(0), J(7), J(1), JStr>>)>>), JNum(3)),
    Flame(AB, JList(<<JList(<<J(0), J(7), JStr, J(0)>>)>>), JNum(3)),
    Flame(AB, JList(<<JList(<<J(0), J(7), JStr, J(2)>>)>>), JNum(3)),
    Flame(AB, OneGroup(1, 2), JNum(3)),
    Flame(AB, OneGroup(1, 1000), JNum(3)),
    Flame(AB, OneGroup(1, -1000), JNum(3)) }

Payloads == WellFormed \cup EdgePayloads

\* the payloads of the interleaved calls: two in-range groups in one level
\* or in two, and three responses of another shape
ConcPayloads ==
  { Flame(AB, TwoGroups(s, x, t, y), JNum(3)) : s \in 1..MaxSelf, x \in {0, 1}, t \in 1..MaxSelf, y \in {0, 1} }
  \cup { Flame(AB, JList(<<JList(Group(s, x)), JList(Group(s, y) \o Trail(1))>>), JNum(3))
         : s \in 1..MaxSelf, x \in {0, 1}, y \in {0, 1} }
  \cup { JNone,
         Flame(AB, JList(<<JNullList>>), JNum(3)),
         Flame(AB, OneGroup(1, -1000), JNum(3)) }

----------------------------------------------------------------------------
(* pyro_top_functions, one call c                                          *)

EmptyList == JList(<<>>)
Zero == JNum(0)

\* the call ends: it returns r or raises
Finish(c, r) ==
  /\ pc' = [pc EXCEPT ![c] = "done"]
  /\ ret' = [ret EXCEPT ![c] = r]

\* a variant of WriteMap for an accumulator that all calls share
WriteMapShared(sm, c, m) == [d \in DOMAIN sm |-> m]

\* line 140 and line 147: self_map is a local of the call
WriteMap(sm, c, m) == [sm EXCEPT ![c] = m]

\* lines 44-46: a URL of another scheme is refused, no request is made
RefuseUrl(c) ==
  /\ pc[c] = "render"
  /\ ~AllowedScheme(RenderUrl(base_url[c]))
  /\ outcome' = [outcome EXCEPT ![c] = "refused"]
  /\ data' = [data EXCEPT ![c] = JNone]
  /\ pc' = [pc EXCEPT ![c] = "check"]
  /\ UNCHANGED <<base_url, requests, names, levels, total, li, i, self_map, n, ret>>
  /\ UNCHANGED promVars

\* lines 47-54: the request is made and the body parses to d
FetchOk(c, P) ==
  /\ pc[c] = "render"
  /\ AllowedScheme(RenderUrl(base_url[c]))
  /\ \E d \in P :
       data' = [data EXCEPT ![c] = d]
  /\ requests' = [requests EXCEPT ![c] = @ + 1]
  /\ outcome' = [outcome EXCEPT ![c] = "ok"]
  /\ pc' = [pc EXCEPT ![c] = "check"]
  /\ UNCHANGED <<base_url, names, levels, total, li, i, self_map, n, ret>>
  /\ UNCHANGED promVars

\* lines 55-63: the request is made and fails with an exception that is
\* caught; _fetch_json returns None
FetchFail(c) ==
  /\ pc[c] = "render"
  /\ AllowedScheme(RenderUrl(base_url[c]))
  /\ \E e \in CaughtErrors :
       outcome' = [outcome EXCEPT ![c] = e]
  /\ requests' = [requests EXCEPT ![c] = @ + 1]
  /\ data' = [data EXCEPT ![c] = JNone]
  /\ pc' = [pc EXCEPT ![c] = "check"]
  /\ UNCHANGED <<base_url, names, levels, total, li, i, self_map, n, ret>>
  /\ UNCHANGED promVars

\* lines 47-63: the request is made and fails with an exception that no
\* except clause names; it leaves _fetch_json, pyro_render and the call
FetchRaise(c) ==
  /\ pc[c] = "render"
  /\ AllowedScheme(RenderUrl(base_url[c]))
  /\ \E e \in UncaughtErrors :
       /\ outcome' = [outcome EXCEPT ![c] = e]
       /\ Finish(c, Raised(e))
  /\ requests' = [requests EXCEPT ![c] = @ + 1]
  /\ UNCHANGED <<base_url, data, names, levels, total, li, i, self_map, n>>
  /\ UNCHANGED promVars

\* lines 130-140
CheckData(c) ==
  /\ pc[c] = "check"
  /\ LET d == data[c]
         nm == Get(d.names, EmptyList)
         lv == Get(d.levels, EmptyList)
         tt == Get(d.numTicks, Zero)
     IN IF d.top = "null"
          THEN /\ Finish(c, Returned(<<>>))
               /\ UNCHANGED <<names, levels, total, li, self_map>>
        ELSE IF d.top # "object" \/ d.fb \notin {"missing", "object"}
          THEN /\ Finish(c, Raised("AttributeError"))
               /\ UNCHANGED <<names, levels, total, li, self_map>>
        ELSE IF d.fb = "missing"
          THEN /\ Finish(c, Returned(<<>>))
               /\ names' = [names EXCEPT ![c] = EmptyList]
               /\ levels' = [levels EXCEPT ![c] = EmptyList]
               /\ total' = [total EXCEPT ![c] = Zero]
               /\ UNCHANGED <<li, self_map>>
        ELSE /\ names' = [names EXCEPT ![c] = nm]
             /\ levels' = [levels EXCEPT ![c] = lv]
             /\ total' = [total EXCEPT ![c] = tt]
             /\ IF tt.kind = "num" /\ tt.v = 0
                  THEN /\ Finish(c, Returned(<<>>))
                       /\ UNCHANGED <<li, self_map>>
                  ELSE /\ self_map' = WriteMap(self_map, c, <<>>)
                       /\ li' = [li EXCEPT ![c] = 1]
                       /\ pc' = [pc EXCEPT ![c] = "for"]
                       /\ UNCHANGED ret
  /\ UNCHANGED <<base_url, requests, outcome, data, i, n>>
  /\ UNCHANGED promVars

\* line 141, the next level of the for loop, and line 142
ForLevel(c) ==
  /\ pc[c] = "for"
  /\ IF levels[c].kind # "list"
       THEN /\ Finish(c, Raised("TypeError"))
            /\ UNCHANGED i
     ELSE IF li[c] > Len(levels[c].items)
       THEN /\ pc' = [pc EXCEPT ![c] = "sort"]
            /\ UNCHANGED <<i, ret>>
     ELSE /\ i' = [i EXCEPT ![c] = 0]
          /\ pc' = [pc EXCEPT ![c] = "while"]
          /\ UNCHANGED ret
  /\ UNCHANGED <<base_url, requests, outcome, data, names, levels, total, li, self_map, n>>
  /\ UNCHANGED promVars

\* the level the for loop is at
Level(c) == levels[c].items[li[c]]

\* line 143 is false: fewer than 4 integers remain, the level is done
EndLevel(c) ==
  /\ pc[c] = "while"
  /\ WhileCond(Level(c), i[c]) = "false"
  /\ li' = [li EXCEPT ![c] = @ + 1]
  /\ pc' = [pc EXCEPT ![c] = "for"]
  /\ UNCHANGED <<base_url, requests, outcome, data, names, levels, total, i, self_map, n, ret>>
  /\ UNCHANGED promVars

\* line 143 raises: the level is not a list
LevelRaise(c) ==
  /\ pc[c] = "while"
  /\ WhileCond(Level(c), i[c]) = "raise"
  /\ Finish(c, Raised("TypeError"))
  /\ UNCHANGED <<base_url, requests, outcome, data, names, levels, total, li, i, self_map, n>>
  /\ UNCHANGED promVars

\* lines 143-148: one complete group
ScanGroup(c) ==
  /\ pc[c] = "while"
  /\ WhileCond(Level(c), i[c]) = "true"
  /\ LET eff == GroupEffect(names[c], self_map[c], NameIdx(Level(c), i[c]), SelfVal(Level(c), i[c]))
     IN IF eff.exc # ""
          THEN /\ Finish(c, Raised(eff.exc))
               /\ UNCHANGED <<i, self_map>>
          ELSE /\ self_map' = WriteMap(self_map, c, eff.map)
               /\ i' = [i EXCEPT ![c] = @ + 4]
               /\ UNCHANGED <<pc, ret>>
  /\ UNCHANGED <<base_url, requests, outcome, data, names, levels, total, li, n>>
  /\ UNCHANGED promVars

\* lines 150-152, with the argument n being k
TopN(c) ==
  /\ pc[c] = "sort"
  /\ \E k \in NVals :
       /\ n' = [n EXCEPT ![c] = k]
       /\ Finish(c, TopEntries(self_map[c], total[c], k))
  /\ UNCHANGED <<base_url, requests, outcome, data, names, levels, total, li, i, self_map>>
  /\ UNCHANGED promVars

\* the calls ids have been made and none has taken a step
InitCalls(ids, urls) ==
  /\ pc = [c \in ids |-> "render"]
  /\ base_url \in [ids -> urls]
  /\ requests = [c \in ids |-> 0]
  /\ outcome = [c \in ids |-> ""]
  /\ data = [c \in ids |-> JNone]
  /\ names = [c \in ids |-> EmptyList]
  /\ levels = [c \in ids |-> EmptyList]
  /\ total = [c \in ids |-> Zero]
  /\ li = [c \in ids |-> 1]
  /\ i = [c \in ids |-> 0]
  /\ self_map = [c \in ids |-> <<>>]
  /\ n = [c \in ids |-> 5]
  /\ ret = [c \in ids |-> Pending]

PromIdle ==
  /\ ppc = "idle"
  /\ presult = <<>>
  /\ pidx = 1
  /\ out = <<>>
  /\ pret = Pending

OneCall == {1}
TwoCalls == {1, 2}

\* one call of pyro_top_functions
Init == InitCalls(OneCall, BaseUrls) /\ PromIdle

Next ==
  \/ \E c \in OneCall : RefuseUrl(c)
  \/ \E c \in OneCall : FetchOk(c, Payloads)
  \/ \E c \in OneCall : FetchFail(c)
  \/ \E c \in OneCall : FetchRaise(c)
  \/ \E c \in OneCall : CheckData(c)
  \/ \E c \in OneCall : ForLevel(c)
  \/ \E c \in OneCall : EndLevel(c)
  \/ \E c \in OneCall : LevelRaise(c)
  \/ \E c \in OneCall : ScanGroup(c)
  \/ \E c \in OneCall : TopN(c)

Spec == Init /\ [][Next]_vars

\* two calls of pyro_top_functions, their steps interleaved
ConcUrls == {<<"h", "t", "t", "p", ":", "/", "/", "p">>, <<"f", "t", "p", ":", "/", "/", "p">>}

InitConc == InitCalls(TwoCalls, ConcUrls) /\ PromIdle

NextConc ==
  \/ \E c \in TwoCalls : RefuseUrl(c)
  \/ \E c \in TwoCalls : FetchOk(c, ConcPayloads)
  \/ \E c \in TwoCalls : FetchFail(c)
  \/ \E c \in TwoCalls : FetchRaise(c)
  \/ \E c \in TwoCalls : CheckData(c)
  \/ \E c \in TwoCalls : ForLevel(c)
  \/ \E c \in TwoCalls : EndLevel(c)
  \/ \E c \in TwoCalls : LevelRaise(c)
  \/ \E c \in TwoCalls : ScanGroup(c)
  \/ \E c \in TwoCalls : TopN(c)

SpecConc == InitConc /\ [][NextConc]_vars

----------------------------------------------------------------------------
(* prom_query and prom_instant                                             *)

\* the "instance" label of a metric, or its absence
Label(s) == [kind |-> "str", s |-> s]
NoLabel == [kind |-> "missing", s |-> <<>>]

\* an element of a "value" list: a string, a number, a null
VStr(s) == [kind |-> "str", s |-> s, v |-> 0]
VNum(k) == [kind |-> "num", s |-> <<>>, v |-> k]
VNull == [kind |-> "null", s |-> <<>>, v |-> 0]

\* the "value" member of a result entry: a list, a null, or absent
ValueList(items) == [kind |-> "list", items |-> items]
ValueNull == [kind |-> "null", items |-> <<>>]
ValueMissing == [kind |-> "missing", items |-> <<>>]

\* a result entry: whether it has a "metric" member, the instance label of
\* that metric, and its "value" member
ResultEntry(hasMetric, instance, value) ==
  [hasMetric |-> hasMetric, instance |-> instance, value |-> value]

\* str.split(":")[0]: what precedes the first colon, the whole string when
\* there is none
RECURSIVE BeforeColon(_)
BeforeColon(s) ==
  IF s = <<>> \/ Head(s) = ":" THEN <<>> ELSE <<Head(s)>> \o BeforeColon(Tail(s))

Digits == <<"0", "1", "2", "3", "4", "5", "6", "7", "8", "9">>

IsDigit(ch) == \E k \in 1..Len(Digits) : Digits[k] = ch

DigitVal(ch) == (CHOOSE k \in 1..Len(Digits) : Digits[k] = ch) - 1

\* the number a string of digits denotes
RECURSIVE DigitsValue(_, _)
DigitsValue(s, acc) ==
  IF s = <<>> THEN acc ELSE DigitsValue(Tail(s), 10 * acc + DigitVal(Head(s)))

\* a float as mant / 10^frac with no trailing zero in the fraction
RECURSIVE Normal(_, _)
Normal(mant, frac) ==
  IF frac > 0 /\ mant % 10 = 0 THEN Normal(mant \div 10, frac - 1)
  ELSE [mant |-> mant, frac |-> frac]

\* float(s) for a string of digits and dots: ValueError unless s is digits
\* with at most one dot and at least one digit
ParseFloat(s) ==
  LET dots == {k \in 1..Len(s) : s[k] = "."}
      digs == {k \in 1..Len(s) : IsDigit(s[k])}
      valid == /\ dots \cup digs = 1..Len(s)
               /\ Cardinality(dots) <= 1
               /\ digs # {}
      dot == IF dots = {} THEN Len(s) + 1 ELSE CHOOSE k \in dots : TRUE
      whole == SubSeq(s, 1, dot - 1)
      part == SubSeq(s, dot + 1, Len(s))
  IN IF valid
       THEN [exc |-> "", val |-> Normal(DigitsValue(whole \o part, 0), Len(part))]
       ELSE [exc |-> "ValueError", val |-> Normal(0, 0)]

\* line 86: float(r["value"][1]) with the exception it raises ("" for none)
ValueOf(value) ==
  IF value.kind = "missing" THEN [exc |-> "KeyError", val |-> Normal(0, 0)]
  ELSE IF value.kind = "null" THEN [exc |-> "TypeError", val |-> Normal(0, 0)]
  ELSE IF Len(value.items) < 2 THEN [exc |-> "IndexError", val |-> Normal(0, 0)]
  ELSE LET x == value.items[2]
       IN IF x.kind = "null" THEN [exc |-> "TypeError", val |-> Normal(0, 0)]
          ELSE IF x.kind = "num" THEN [exc |-> "", val |-> Normal(x.v, 0)]
          ELSE ParseFloat(x.s)

\* line 87: the exceptions the loop body catches
CaughtInLoop == {"IndexError", "ValueError", "TypeError"}

Unknown == <<"u", "n", "k", "n", "o", "w", "n">>

\* line 84
InstOf(r) == BeforeColon(Get(r.instance, Label(Unknown)).s)

InstanceLabels ==
  { NoLabel,
    Label(<<"a", ":", "8", "0">>),
    Label(<<"b">>),
    Label(<<"a", ":", "9", ":", "x">>) }

Values ==
  { ValueMissing,
    ValueNull,
    ValueList(<<VNum(7)>>),
    ValueList(<<VNum(7), VNull>>),
    ValueList(<<VNum(7), VStr(<<"a", "b", "c">>)>>),
    ValueList(<<VNum(7), VStr(<<"1", ".", "5">>)>>),
    ValueList(<<VNum(7), VStr(<<"2", ".", "0">>)>>),
    ValueList(<<VNum(7), VNum(2)>>) }

ResultEntries ==
  { ResultEntry(TRUE, l, v) : l \in InstanceLabels, v \in Values }
  \cup { ResultEntry(FALSE, NoLabel, v) : v \in Values }

ResultLists == UNION { [1..k -> ResultEntries] : k \in 0..MaxResults }

\* lines 68-73: _fetch_json gave None and prom_query returns []
PromQueryNone ==
  /\ ppc = "query"
  /\ presult' = <<>>
  /\ ppc' = "loop"
  /\ UNCHANGED <<pidx, out, pret>>
  /\ UNCHANGED pyroVars

\* lines 68-74: prom_query returns the "result" list of the response
PromQueryOk ==
  /\ ppc = "query"
  /\ presult' \in ResultLists
  /\ ppc' = "loop"
  /\ UNCHANGED <<pidx, out, pret>>
  /\ UNCHANGED pyroVars

\* lines 83-88: one entry of the result list
PromEntry ==
  /\ ppc = "loop"
  /\ pidx <= Len(presult)
  /\ LET r == presult[pidx]
         f == ValueOf(r.value)
     IN IF ~r.hasMetric
          THEN /\ pret' = Raised("KeyError")
               /\ ppc' = "done"
               /\ UNCHANGED <<pidx, out>>
        ELSE IF f.exc = ""
          THEN /\ out' = MapPut(out, InstOf(r), f.val)
               /\ pidx' = pidx + 1
               /\ UNCHANGED <<ppc, pret>>
        ELSE IF f.exc \in CaughtInLoop
          THEN /\ pidx' = pidx + 1
               /\ UNCHANGED <<ppc, out, pret>>
        ELSE /\ pret' = Raised(f.exc)
             /\ ppc' = "done"
             /\ UNCHANGED <<pidx, out>>
  /\ UNCHANGED presult
  /\ UNCHANGED pyroVars

\* line 89
PromReturn ==
  /\ ppc = "loop"
  /\ pidx > Len(presult)
  /\ pret' = Returned(out)
  /\ ppc' = "done"
  /\ UNCHANGED <<presult, pidx, out>>
  /\ UNCHANGED pyroVars

NoCalls == {}

\* one call of prom_instant
InitProm ==
  /\ InitCalls(NoCalls, BaseUrls)
  /\ ppc = "query"
  /\ presult = <<>>
  /\ pidx = 1
  /\ out = <<>>
  /\ pret = Pending

NextProm ==
  \/ PromQueryNone
  \/ PromQueryOk
  \/ PromEntry
  \/ PromReturn

SpecProm == InitProm /\ [][NextProm]_vars

----------------------------------------------------------------------------
(* pyro_top_functions as a function of what the fetch gave and of n: the   *)
(* result of a call that runs alone                                        *)

RECURSIVE ScanLevel(_, _, _, _)
ScanLevel(nm, level, k, m) ==
  LET cnd == WhileCond(level, k)
  IN IF cnd = "raise" THEN [exc |-> "TypeError", map |-> m]
     ELSE IF cnd = "false" THEN [exc |-> "", map |-> m]
     ELSE LET eff == GroupEffect(nm, m, NameIdx(level, k), SelfVal(level, k))
          IN IF eff.exc # "" THEN eff ELSE ScanLevel(nm, level, k + 4, eff.map)

RECURSIVE ScanLevels(_, _, _, _)
ScanLevels(nm, lv, j, m) ==
  IF j > Len(lv) THEN [exc |-> "", map |-> m]
  ELSE LET r == ScanLevel(nm, lv[j], 0, m)
       IN IF r.exc # "" THEN r ELSE ScanLevels(nm, lv, j + 1, r.map)

Aggregate(d, k) ==
  LET nm == Get(d.names, EmptyList)
      lv == Get(d.levels, EmptyList)
      tt == Get(d.numTicks, Zero)
  IN IF d.top = "null" THEN Returned(<<>>)
     ELSE IF d.top # "object" \/ d.fb \notin {"missing", "object"} THEN Raised("AttributeError")
     ELSE IF d.fb = "missing" THEN Returned(<<>>)
     ELSE IF tt.kind = "num" /\ tt.v = 0 THEN Returned(<<>>)
     ELSE IF lv.kind # "list" THEN Raised("TypeError")
     ELSE LET r == ScanLevels(nm, lv.items, 1, <<>>)
          IN IF r.exc # "" THEN Raised(r.exc) ELSE TopEntries(r.map, tt, k)

pyro_top_functions(fetched, d, k) ==
  IF fetched \in UncaughtErrors THEN Raised(fetched)
  ELSE Aggregate(IF fetched = "ok" THEN d ELSE JNone, k)

----------------------------------------------------------------------------
(* Properties                                                              *)

Done(c) == pc[c] = "done"

\* C1: a call of pyro_top_functions never raises: whatever the fetch gave,
\* it ends by returning a sequence, and when the fetch did not give a
\* parsed value it returns the empty sequence.
C1_NeverRaises ==
  \A c \in DOMAIN pc :
    Done(c) => /\ ret[c].st = "returned"
               /\ (outcome[c] # "ok" => ret[c].val = <<>>)

\* C2: a call that reaches the ranking (line 150) with n <= 0 returns the
\* empty sequence.
C2_NonPositiveNGivesEmpty ==
  \A c \in DOMAIN pc :
    (Done(c) /\ n[c] <= 0) => ret[c] = Returned(<<>>)

\* the sum of the self values of a returned sequence
RECURSIVE SumSelf(_)
SumSelf(es) == IF es = <<>> THEN 0 ELSE Head(es).self + SumSelf(Tail(es))

IntList(level) ==
  /\ level.kind = "list"
  /\ \A j \in 1..Len(level.items) : level.items[j].isInt

\* names a list of strings, levels a list of lists of integers, numTicks a
\* positive integer
ValidFlame(d) ==
  /\ d.top = "object" /\ d.fb = "object"
  /\ d.names.kind = "list"
  /\ d.levels.kind = "list"
  /\ \A j \in 1..Len(d.levels.items) : IntList(d.levels.items[j])
  /\ d.numTicks.kind = "num" /\ d.numTicks.v > 0

\* the positive self_ticks (third field) of the complete groups of a level
\* of integers, from the group at offset k on
RECURSIVE PositiveSelfOf(_, _)
PositiveSelfOf(items, k) ==
  IF k + 4 > Len(items) THEN 0
  ELSE Max(items[k + 3].v, 0) + PositiveSelfOf(items, k + 4)

RECURSIVE PositiveSelfSum(_)
PositiveSelfSum(lv) ==
  IF lv = <<>> THEN 0 ELSE PositiveSelfOf(Head(lv).items, 0) + PositiveSelfSum(Tail(lv))

\* C3 as stated: for a valid flamebearer the self values returned sum to at
\* most numTicks.
C3_SumWithinNumTicks ==
  \A c \in DOMAIN pc :
    (Done(c) /\ outcome[c] = "ok" /\ ret[c].st = "returned" /\ ValidFlame(data[c]))
      => SumSelf(ret[c].val) <= data[c].numTicks.v

\* C3 amended: for a valid flamebearer whose complete groups' positive
\* self_ticks sum to at most numTicks, the self values returned sum to at
\* most numTicks, for every n.
C3_SumWithinNumTicksWhenConsistent ==
  \A c \in DOMAIN pc :
    (/\ Done(c) /\ outcome[c] = "ok" /\ ret[c].st = "returned"
     /\ ValidFlame(data[c])
     /\ PositiveSelfSum(data[c].levels.items) <= data[c].numTicks.v)
      => SumSelf(ret[c].val) <= data[c].numTicks.v

\* a consistent flamebearer whose returned self values add up to numTicks
\* exactly, from two entries
C3_Witness ==
  \E c \in DOMAIN pc :
    /\ Done(c) /\ outcome[c] = "ok" /\ ret[c].st = "returned"
    /\ ValidFlame(data[c])
    /\ PositiveSelfSum(data[c].levels.items) <= data[c].numTicks.v
    /\ Len(ret[c].val) = 2
    /\ SumSelf(ret[c].val) = data[c].numTicks.v

\* p tenths of a percent is a tenth nearest to sv / tt * 100
NearestTenth(p, sv, tt) == 2 * Abs(p * tt - 1000 * sv) <= Abs(tt)

\* C4 as stated: when numTicks # 0, every returned entry has pct equal to
\* self / numTicks * 100 rounded to one decimal, and 0 <= pct <= 100.
C4_PctRoundedAndInRange ==
  \A c \in DOMAIN pc :
    (Done(c) /\ ret[c].st = "returned")
      => \A j \in 1..Len(ret[c].val) :
           LET e == ret[c].val[j]
           IN /\ NearestTenth(e.pct, e.self, total[c].v)
              /\ 0 <= e.pct /\ e.pct <= 1000

\* C4 amended: when numTicks # 0, every returned entry has pct equal to
\* self / numTicks * 100 rounded to one decimal; pct lies in [0, 100] when
\* numTicks > 0 and the entry's self is at most numTicks.
C4_PctRoundedAndInRangeWhenWithin ==
  \A c \in DOMAIN pc :
    (Done(c) /\ ret[c].st = "returned")
      => \A j \in 1..Len(ret[c].val) :
           LET e == ret[c].val[j]
           IN /\ NearestTenth(e.pct, e.self, total[c].v)
              /\ (total[c].v > 0 /\ e.self <= total[c].v) => (0 <= e.pct /\ e.pct <= 1000)

\* an entry of 2 ticks out of 3, whose pct is rounded up to 66.7
C4_Witness ==
  \E c \in DOMAIN pc :
    /\ Done(c) /\ ret[c].st = "returned"
    /\ \E j \in 1..Len(ret[c].val) :
         /\ ret[c].val[j].self = 2 /\ total[c].v = 3
         /\ ret[c].val[j].pct = 667

\* the names under which lines 146-147 count the complete groups of a level
\* of integers, in scan order, from the group at offset k on
RECURSIVE CountedIn(_, _, _)
CountedIn(nm, items, k) ==
  IF k + 4 > Len(items) THEN <<>>
  ELSE LET x == items[k + 4].v
           sv == items[k + 3].v
       IN (IF x < Len(nm) /\ x >= -Len(nm) /\ sv > 0 THEN <<PyIndex(nm, x)>> ELSE <<>>)
          \o CountedIn(nm, items, k + 4)

\* the same over the levels, in level order
RECURSIVE Counted(_, _)
Counted(nm, lv) ==
  IF lv = <<>> THEN <<>> ELSE CountedIn(nm, Head(lv).items, 0) \o Counted(nm, Tail(lv))

\* the position at which name first occurs in a sequence of names
FirstSeen(seq, name) == CHOOSE j \in 1..Len(seq) : seq[j] = name /\ \A k \in 1..(j - 1) : seq[k] # name

\* C5: the returned sequence is in descending order of self; two entries of
\* equal self are in the order in which the scan (level by level, group by
\* group) first counted their names; and two calls given the same payload
\* and the same n end the same way.
C5_DescendingStableAndRepeatable ==
  /\ \A c \in DOMAIN pc :
       (Done(c) /\ ret[c].st = "returned" /\ ret[c].val # <<>>)
         => LET val == ret[c].val
                order == Counted(data[c].names.items, data[c].levels.items)
            IN \A j \in 1..Len(val) : \A k \in (j + 1)..Len(val) :
                 /\ val[j].self >= val[k].self
                 /\ val[j].self = val[k].self
                      => FirstSeen(order, val[j].function) < FirstSeen(order, val[k].function)
  /\ \A c \in DOMAIN pc : \A d \in DOMAIN pc :
       (/\ Done(c) /\ Done(d)
        /\ outcome[c] = "ok" /\ outcome[d] = "ok"
        /\ data[c] = data[d] /\ n[c] = n[d])
         => ret[c] = ret[d]

\* two calls on the same payload, in which "b" is counted before "a" with
\* the same total, have both returned "b" before "a"
C5_Witness ==
  /\ DOMAIN pc = TwoCalls
  /\ Done(1) /\ Done(2) /\ data[1] = data[2] /\ n[1] = n[2]
  /\ ret[1].st = "returned" /\ Len(ret[1].val) = 2
  /\ ret[1].val[1].function = "b" /\ ret[1].val[2].function = "a"
  /\ ret[1].val[1].self = ret[1].val[2].self
  /\ ret[2] = ret[1]

\* C6: a call makes no request when the URL does not start with http:// or
\* https://, and exactly one otherwise, whatever the outcome; a failed
\* attempt is not retried and gives None (absence) to the caller.
C6_OneRequestAndAbsence ==
  \A c \in DOMAIN pc :
    /\ requests[c] <= 1
    /\ pc[c] # "render"
         => requests[c] = (IF AllowedScheme(RenderUrl(base_url[c])) THEN 1 ELSE 0)
    /\ outcome[c] \notin {"", "ok"}
         => (data[c] = JNone /\ ret[c].st # "raised")

\* what a well-formed entry stores: its value list has a second element
\* that is a number or a string float() accepts
WellFormedEntry(r) == r.hasMetric /\ ValueOf(r.value).exc = ""

RECURSIVE MapOfWellFormed(_, _)
MapOfWellFormed(rs, m) ==
  IF rs = <<>> THEN m
  ELSE MapOfWellFormed(Tail(rs),
         IF WellFormedEntry(Head(rs))
           THEN MapPut(m, InstOf(Head(rs)), ValueOf(Head(rs).value).val)
           ELSE m)

\* C7: prom_instant never fails on a malformed entry: it returns the
\* mapping built from the well-formed entries of the result list, keyed by
\* the instance label up to its first colon.
C7_MalformedEntriesSkipped ==
  ppc = "done" => pret = Returned(MapOfWellFormed(presult, <<>>))

\* the locals of call c
Locals(c) ==
  <<pc[c], base_url[c], requests[c], outcome[c], data[c], names[c], levels[c],
    total[c], li[c], i[c], self_map[c], n[c], ret[c]>>

\* C8: a call that runs interleaved with another ends exactly as it ends
\* when it runs alone on what its own fetch gave, and no step changes the
\* locals of two calls.
C8_CallsAreIsolated ==
  /\ [](\A c \in DOMAIN pc : Done(c) => ret[c] = pyro_top_functions(outcome[c], data[c], n[c]))
  /\ [][\A c \in DOMAIN pc : \A d \in DOMAIN pc :
          (Locals(c)' # Locals(c) /\ Locals(d)' # Locals(d)) => c = d]_vars

\* one call is in the middle of its scan with a non-empty accumulator while
\* the other, on another payload, has returned a different non-empty result
C8_Witness ==
  /\ DOMAIN pc = TwoCalls
  /\ pc[1] = "while" /\ self_map[1] # <<>> /\ i[1] = 4
  /\ Done(2) /\ ret[2].st = "returned" /\ ret[2].val # <<>>
  /\ data[1] # data[2]
  /\ Keys(self_map[1]) # {ret[2].val[j].function : j \in 1..Len(ret[2].val)}

\* C9: a step of the scan over a complete group changes the accumulator
\* only if 0 <= name_idx < len(names) and self_val > 0.
C9_OnlyInBoundsPositiveGroupsCount ==
  [][\A c \in DOMAIN pc :
       (pc[c] = "while" /\ WhileCond(Level(c), i[c]) = "true" /\ self_map'[c] # self_map[c])
         => LET x == Level(c).items[i[c] + 4]
                sv == Level(c).items[i[c] + 3]
            IN /\ x.isInt /\ 0 <= x.v /\ x.v < Len(names[c].items)
               /\ sv.isInt /\ sv.v > 0]_vars

\* the sum of self_ticks over the complete groups of a level, from offset k
\* on, whose name_index is within names and names name, and whose
\* self_ticks is positive
RECURSIVE GroupSumIn(_, _, _, _)
GroupSumIn(nm, items, k, name) ==
  IF k + 4 > Len(items) THEN 0
  ELSE LET x == items[k + 4]
           sv == items[k + 3]
           counts == /\ x.isInt /\ 0 <= x.v /\ x.v < Len(nm)
                     /\ nm[x.v + 1] = name
                     /\ sv.isInt /\ sv.v > 0
       IN (IF counts THEN sv.v ELSE 0) + GroupSumIn(nm, items, k + 4, name)

RECURSIVE GroupSum(_, _, _)
GroupSum(nm, lv, name) ==
  IF lv = <<>> THEN 0 ELSE GroupSumIn(nm, Head(lv).items, 0, name) + GroupSum(nm, Tail(lv), name)

\* the scan of call c has ended without raising
Scanned(c) == pc[c] = "sort" \/ (Done(c) /\ li[c] > Len(levels[c].items) /\ levels[c].kind = "list" /\ total[c] # Zero)

\* C10: when the scan has ended, the total of every name is the sum of
\* self_ticks over the complete groups (offset 0, step 4) of all levels
\* that reference the name with positive self_ticks, trailing integers
\* counting for nothing; and with n at least the number of names every
\* name is returned.
C10_TotalsAreGroupSums ==
  \A c \in DOMAIN pc :
    Scanned(c) =>
      /\ \A name \in {"a", "b"} :
           MapGet(self_map[c], name, 0) = GroupSum(names[c].items, levels[c].items, name)
      /\ (Done(c) /\ n[c] >= Len(self_map[c]))
           => /\ ret[c].st = "returned"
              /\ {ret[c].val[j].function : j \in 1..Len(ret[c].val)} = Keys(self_map[c])
              /\ Len(ret[c].val) = Len(self_map[c])

====
